---------------------------- MODULE Spec2Model ----------------------------
(***************************************************************************)
(* PyCalendarGen.py: the special-day parser (loadDays), the date resolvers *)
(* (easter, table), the calendar grid (drawGrid) and the month sequencer   *)
(* (drawMonth, run).                                                       *)
(*                                                                         *)
(* Text is a sequence of one-character strings.  A call that can raise     *)
(* returns a record [err, val]: err = "none" and the value, or the name of *)
(* the exception raised and an empty value.  Where a statement uses the    *)
(* result of an earlier one, the later statements are an operator that     *)
(* takes the result as a parameter.                                        *)
(***************************************************************************)
EXTENDS Integers, Sequences, FiniteSets, TLC

(***************************************************************************)
(* Bounds of the model.                                                    *)
(***************************************************************************)
MaxLines == 3
MaxParts == 2
MaxImages == 2

Return(v) == [err |-> "none", val |-> v]
Raise(e) == [err |-> e, val |-> <<>>]

(***************************************************************************)
(* Python built-ins used by the program.                                   *)
(***************************************************************************)
Whitespace == {" ", "\t", "\n", "\r"}
Digits == {"0", "1", "2", "3", "4", "5", "6", "7", "8", "9"}

DigitVal(ch) ==
    CASE ch = "0" -> 0 [] ch = "1" -> 1 [] ch = "2" -> 2 [] ch = "3" -> 3
      [] ch = "4" -> 4 [] ch = "5" -> 5 [] ch = "6" -> 6 [] ch = "7" -> 7
      [] ch = "8" -> 8 [] ch = "9" -> 9

RECURSIVE LStrip(_, _)
LStrip(s, chars) ==
    IF s # <<>> /\ Head(s) \in chars THEN LStrip(Tail(s), chars) ELSE s

RECURSIVE RStrip(_, _)
RStrip(s, chars) ==
    IF s # <<>> /\ s[Len(s)] \in chars
    THEN RStrip(SubSeq(s, 1, Len(s) - 1), chars)
    ELSE s

\* str.strip(chars)
Strip(s, chars) == RStrip(LStrip(s, chars), chars)

\* str.split(sep): every separator cuts, empty fields are kept
RECURSIVE SplitAcc(_, _, _, _)
SplitAcc(s, sep, cur, acc) ==
    IF s = <<>> THEN Append(acc, cur)
    ELSE IF Head(s) = sep THEN SplitAcc(Tail(s), sep, <<>>, Append(acc, cur))
    ELSE SplitAcc(Tail(s), sep, Append(cur, Head(s)), acc)

SplitOn(s, sep) == SplitAcc(s, sep, <<>>, <<>>)

\* str.split(): runs of whitespace cut, no empty field
RECURSIVE SplitWsAcc(_, _, _)
SplitWsAcc(s, cur, acc) ==
    IF s = <<>> THEN (IF cur = <<>> THEN acc ELSE Append(acc, cur))
    ELSE IF Head(s) \in Whitespace
         THEN SplitWsAcc(Tail(s), <<>>, IF cur = <<>> THEN acc ELSE Append(acc, cur))
         ELSE SplitWsAcc(Tail(s), Append(cur, Head(s)), acc)

SplitWs(s) == SplitWsAcc(s, <<>>, <<>>)

\* sep.join(list)
RECURSIVE Join(_, _)
Join(list, sep) ==
    IF list = <<>> THEN <<>>
    ELSE IF Len(list) = 1 THEN list[1]
    ELSE list[1] \o sep \o Join(Tail(list), sep)

RECURSIVE DigitsVal(_, _)
DigitsVal(s, acc) ==
    IF s = <<>> THEN acc ELSE DigitsVal(Tail(s), 10 * acc + DigitVal(Head(s)))

\* int(str) of a string without surrounding whitespace: an optional sign,
\* then one or more digits
IntOfStripped(t) ==
    LET signed == t # <<>> /\ Head(t) \in {"+", "-"}
        body == IF signed THEN Tail(t) ELSE t
    IN  IF body = <<>> \/ \E i \in 1..Len(body) : body[i] \notin Digits
        THEN Raise("ValueError")
        ELSE Return(IF signed /\ Head(t) = "-"
                    THEN 0 - DigitsVal(body, 0)
                    ELSE DigitsVal(body, 0))

\* int(str): surrounding whitespace is ignored
PyInt(s) == IntOfStripped(Strip(s, Whitespace))

\* unicode.encode('utf-8'): one byte per ASCII character, two for the
\* character U+00E9 (written here as the one-character token "U+00E9")
Utf8Bytes(ch) == IF ch = "U+00E9" THEN <<"0xC3", "0xA9">> ELSE <<ch>>

RECURSIVE Utf8Encode(_)
Utf8Encode(s) ==
    IF s = <<>> THEN <<>> ELSE Utf8Bytes(Head(s)) \o Utf8Encode(Tail(s))

\* list[i] with Python's negative indices
PyInRange(list, i) == i \in (0 - Len(list))..(Len(list) - 1)
PyIndex(list, i) == IF i < 0 THEN list[Len(list) + i + 1] ELSE list[i + 1]

(***************************************************************************)
(* Calendar arithmetic of the libraries the program calls: the proleptic   *)
(* Gregorian ordinal (datetime, mx.DateTime absolute dates), Monday = 0.   *)
(***************************************************************************)
IsLeap(y) == y % 4 = 0 /\ (y % 100 # 0 \/ y % 400 = 0)

\* DaysInMonth with a leap year every fourth year
DaysInMonthJulian(y, m) ==
    IF m = 2 THEN (IF y % 4 = 0 THEN 29 ELSE 28)
    ELSE IF m \in {4, 6, 9, 11} THEN 30 ELSE 31

DaysInMonth(y, m) ==
    IF m = 2 THEN (IF IsLeap(y) THEN 29 ELSE 28)
    ELSE IF m \in {4, 6, 9, 11} THEN 30 ELSE 31

DaysBeforeYear(y) ==
    365 * (y - 1) + ((y - 1) \div 4) - ((y - 1) \div 100) + ((y - 1) \div 400)

\* the days of a common year before each month, and before the next year
DaysBeforeMonths == <<0, 31, 59, 90, 120, 151, 181, 212, 243, 273, 304, 334, 365>>

\* the days of year y before month m
DaysBeforeMonth(y, m) ==
    IF m <= 1 THEN 0
    ELSE DaysBeforeMonths[IF m > 13 THEN 13 ELSE m]
         + (IF m > 2 /\ IsLeap(y) THEN 1 ELSE 0)

Ordinal(y, m, d) == DaysBeforeYear(y) + DaysBeforeMonth(y, m) + d

YearOfOrdinal(n) ==
    CHOOSE y \in (n \div 366)..(n \div 365 + 1) :
        DaysBeforeYear(y) < n /\ n <= DaysBeforeYear(y + 1)

MonthOfDay(y, doy) ==
    CHOOSE m \in 1..12 :
        DaysBeforeMonth(y, m) < doy /\ doy <= DaysBeforeMonth(y, m + 1)

DateOfDay(y, m, doy) == [year |-> y, month |-> m, day |-> doy - DaysBeforeMonth(y, m)]

DateInYear(y, doy) == DateOfDay(y, MonthOfDay(y, doy), doy)

DateOfYear(y, n) == DateInYear(y, n - DaysBeforeYear(y))

\* the date [year, month, day] of an ordinal
FromOrdinal(n) == DateOfYear(YearOfOrdinal(n), n)

\* calendar.weekday(year, month, day)
Weekday(y, m, d) == (Ordinal(y, m, d) + 6) % 7

\* mx.DateTime.Feasts.EasterSunday(year): Gregorian Easter Sunday
EasterSunday(year) ==
    LET g == year % 19
        c == year \div 100
        h == (c - (c \div 4) - ((8 * c + 13) \div 25) + 19 * g + 15) % 30
        i == h - (h \div 28) * (1 - (h \div 28) * (29 \div (h + 1)) * ((21 - g) \div 11))
        j == (year + (year \div 4) + i + 2 - c + (c \div 4)) % 7
        l == i - j
        m == 3 + ((l + 40) \div 44)
    IN  [year |-> year, month |-> m, day |-> l + 28 - 31 * (m \div 4)]

(***************************************************************************)
(* Configuration tables.                                                   *)
(***************************************************************************)
colortable ==
    << [color |-> "black", italic |-> FALSE, bold |-> FALSE],
       [color |-> "red",   italic |-> FALSE, bold |-> FALSE],
       [color |-> "cyan",  italic |-> FALSE, bold |-> FALSE],
       [color |-> "black", italic |-> TRUE,  bold |-> FALSE] >>

months ==
    << "January", "February", "March", "April", "May", "June", "July",
       "August", "September", "October", "November", "December" >>

\* day_table: per code, the (day, month) of the years 2005..2018 in order
day_table_codes == { <<"s", "e">>, <<"s", "s">>, <<"a", "e">>, <<"w", "s">> }

day_table_days(what) ==
    CASE what = <<"s", "e">> -> <<20, 20, 21, 20, 20, 20, 20, 20, 20, 20, 20, 20, 20, 20>>
      [] what = <<"s", "s">> -> <<21, 21, 21, 21, 21, 21, 21, 20, 21, 21, 21, 20, 21, 21>>
      [] what = <<"a", "e">> -> <<22, 23, 23, 22, 22, 23, 23, 22, 22, 23, 23, 22, 22, 23>>
      [] what = <<"w", "s">> -> <<21, 22, 22, 21, 21, 21, 22, 21, 21, 21, 22, 21, 21, 21>>

day_table_month(what) ==
    CASE what = <<"s", "e">> -> 3
      [] what = <<"s", "s">> -> 6
      [] what = <<"a", "e">> -> 9
      [] what = <<"w", "s">> -> 12

(***************************************************************************)
(* The date resolvers that drawGrid hands to loadDays.  Both return the    *)
(* pair (day, month).                                                      *)
(***************************************************************************)
\* d.tuple()[2], d.tuple()[1]
DayAndMonth(d) == Return(<<d.day, d.month>>)

\* EasterSunday(year) + RelativeDateTime(days=int(diff)), int(diff) being n
EasterPlus(e, n) ==
    IF n.err # "none" THEN Raise(n.err)
    ELSE DayAndMonth(FromOrdinal(Ordinal(e.year, e.month, e.day) + n.val))

easter(year, diff) == EasterPlus(EasterSunday(year), PyInt(diff))

table(year, what) ==
    IF what \notin day_table_codes \/ year \notin 2005..2018
    THEN Raise("KeyError")
    ELSE Return(<<day_table_days(what)[year - 2004], day_table_month(what)>>)

(***************************************************************************)
(* loadDays.  The annotation file is [exists, lines]; an entry of the      *)
(* result is [date |-> <<month, day>>, style, text], text being the bytes  *)
(* of the UTF-8 encoding.                                                  *)
(***************************************************************************)
StripChars == {" ", "\t", "\n", "\r"}

\* funs[day[0][0]](day[0][1:])
CallTable(tok, year) ==
    IF Head(tok) = "E" THEN easter(year, Tail(tok))
    ELSE IF Head(tok) = "T" THEN table(year, Tail(tok))
    ELSE Raise("KeyError")

\* a date that a resolver returned: its fields are integers
Resolved(r) ==
    IF r.err # "none" THEN Raise(r.err)
    ELSE Return([resolved |-> TRUE, fields |-> r.val])

\* the date of a line's first token: fields being day[0].split('.'), the
\* strings of a DD.MM token, or what the call table returns
DateOfFields(fields, tok, year) ==
    IF Len(fields) > 1 THEN Return([resolved |-> FALSE, fields |-> fields])
    ELSE Resolved(CallTable(tok, year))

DateOfToken(tok, year) == DateOfFields(SplitOn(tok, "."), tok, year)

\* int(date[i]): a string of the DD.MM split is parsed, an integer that a
\* resolver returned is kept
IntOfField(date, i) ==
    IF date.resolved THEN Return(date.fields[i]) ELSE PyInt(date.fields[i])

\* res.append([(int(date[1]), int(date[0])), int(style), part.encode('utf-8')])
\* with month, day, style the results of the three int() calls
Entry(month, day, style, text) ==
    IF month.err # "none" THEN Raise(month.err)
    ELSE IF day.err # "none" THEN Raise(day.err)
    ELSE IF style.err # "none" THEN Raise(style.err)
    ELSE Return([date |-> <<month.val, day.val>>,
                 style |-> style.val,
                 text |-> Utf8Encode(text)])

\* the entry of a stripped part, pieces being part.split(':')
EntryOfPieces(part, pieces, date) ==
    IF Len(pieces) > 2 THEN Raise("ValueError")
    ELSE IF Len(pieces) > 1
    THEN Entry(IntOfField(date, 2), IntOfField(date, 1), PyInt(pieces[1]), pieces[2])
    ELSE Entry(IntOfField(date, 2), IntOfField(date, 1), Return(0), part)

EntryOfStripped(part, date) == EntryOfPieces(part, SplitOn(part, ":"), date)

\* one pass of the loop over what.split('/'): the entry of a part
EntryOfPart(part, date) == EntryOfStripped(Strip(part, Whitespace), date)

\* the loop over what.split('/'), res being the list so far
RECURSIVE EntriesOfParts(_, _, _)
\* AppendEntry with the entry put in front of the list
AppendEntryInFront(e, rest, date, res) ==
    IF e.err # "none" THEN Raise(e.err)
    ELSE EntriesOfParts(rest, date, <<e.val>> \o res)

AppendEntry(e, rest, date, res) ==
    IF e.err # "none" THEN Raise(e.err)
    ELSE EntriesOfParts(rest, date, Append(res, e.val))

EntriesOfParts(parts, date, res) ==
    IF parts = <<>> THEN Return(res)
    ELSE AppendEntry(EntryOfPart(Head(parts), date), Tail(parts), date, res)

\* a line's entries, date being the result of resolving its first token
EntriesOfDated(date, what, res) ==
    IF date.err # "none" THEN Raise(date.err)
    ELSE EntriesOfParts(SplitOn(what, "/"), date.val, res)

\* day being line.split()
EntriesOfTokens(day, year, res) ==
    EntriesOfDated(DateOfToken(day[1], year), Join(Tail(day), <<" ">>), res)

EntriesOfStripped(line, year, res) ==
    IF line = <<>> THEN Raise("IndexError")
    ELSE IF line[1] = "#" THEN Return(res)
    ELSE EntriesOfTokens(SplitWs(line), year, res)

\* one pass of the loop over f.readlines(): res extended by a line's entries
EntriesOfLine(line, year, res) == EntriesOfStripped(Strip(line, StripChars), year, res)

\* the loop over f.readlines()
RECURSIVE EntriesOfLines(_, _, _)
NextLine(r, rest, year) ==
    IF r.err # "none" THEN Raise(r.err) ELSE EntriesOfLines(rest, year, r.val)

EntriesOfLines(lines, year, res) ==
    IF lines = <<>> THEN Return(res)
    ELSE NextLine(EntriesOfLine(Head(lines), year, res), Tail(lines), year)

\* loadDays with the IOError of a missing file left to propagate
loadDaysRaising(file, year) ==
    IF ~file.exists THEN Raise("IOError")
    ELSE EntriesOfLines(file.lines, year, <<>>)

loadDays(file, year) ==
    IF ~file.exists THEN Return(<<>>)
    ELSE EntriesOfLines(file.lines, year, <<>>)

(***************************************************************************)
(* drawGrid.  The result is the sequence of the day cells drawn, in the    *)
(* order drawn: [pos, x, y, day, items, numcolor], x and y counted in grid *)
(* widths to the right and grid heights down.                              *)
(***************************************************************************)
\* the weeks of a month that starts on weekday lead and has n days
WeeksOf(lead, n) ==
    [w \in 1..((lead + n + 6) \div 7) |->
        [col \in 1..7 |->
            IF 7 * (w - 1) + col <= lead \/ 7 * (w - 1) + col > lead + n
            THEN 0
            ELSE 7 * (w - 1) + col - lead]]

\* calendar.monthcalendar(year, month), weeks starting on Monday: the days
\* of the month in full weeks, 0 where a week reaches outside the month
monthcalendar(year, month) ==
    IF month \notin 1..12 THEN Raise("ValueError")
    ELSE Return(WeeksOf(Weekday(year, month, 1), DaysInMonth(year, month)))

\* the entries of reddays that the loop "for rd in reddays" takes for a day
RECURSIVE MatchesOf(_, _, _)
MatchesOf(reddays, month, day) ==
    IF reddays = <<>> THEN <<>>
    ELSE IF Head(reddays).date = <<month, day>>
         THEN <<Head(reddays)>> \o MatchesOf(Tail(reddays), month, day)
         ELSE MatchesOf(Tail(reddays), month, day)

\* txt with the markup of the style's table entry
Markup(col, txt) ==
    IF col.italic /\ col.bold
    THEN <<"<", "b", ">", "<", "i", ">">> \o txt \o <<"<", "/", "i", ">", "<", "/", "b", ">">>
    ELSE IF col.italic THEN <<"<", "i", ">">> \o txt \o <<"<", "/", "i", ">">>
    ELSE IF col.bold THEN <<"<", "b", ">">> \o txt \o <<"<", "/", "b", ">">>
    ELSE txt

\* the Paragraph built for a matching entry
ItemOf(rd) ==
    [txt |-> Markup(PyIndex(colortable, rd.style), rd.text),
     textColor |-> PyIndex(colortable, rd.style).color]

\* IsRedDay without the holiday flag of the matching entries
IsRedDaySundayOnly(isred, year, month, day) == Weekday(year, month, day) = 6

\* the colour of the day number
IsRedDay(isred, year, month, day) == isred \/ Weekday(year, month, day) = 6

\* the body of "if day > 0" for the cell at grid position pos, ms being the
\* entries that match the day
CellOf(ms, year, month, day, pos) ==
    IF \E i \in 1..Len(ms) : ~PyInRange(colortable, ms[i].style)
    THEN Raise("IndexError")
    ELSE Return([pos |-> pos, x |-> pos % 7, y |-> pos \div 7, day |-> day,
                 items |-> [i \in 1..Len(ms) |-> ItemOf(ms[i])],
                 numcolor |-> IF IsRedDay(\E i \in 1..Len(ms) : ms[i].style = 1,
                                          year, month, day)
                              THEN colortable[2].color
                              ELSE colortable[1].color])

DayCell(reddays, year, month, day, pos) ==
    CellOf(MatchesOf(reddays, month, day), year, month, day, pos)

\* the two nested loops over the weeks and their days; pos counts every cell
RECURSIVE GridCells(_, _, _, _, _, _)
AppendCell(cell, weeks, reddays, year, month, pos, cells) ==
    IF cell.err # "none" THEN Raise(cell.err)
    ELSE GridCells(weeks, reddays, year, month, pos + 1, Append(cells, cell.val))

GridDay(day, weeks, reddays, year, month, pos, cells) ==
    IF day > 0
    THEN AppendCell(DayCell(reddays, year, month, day, pos),
                    weeks, reddays, year, month, pos, cells)
    ELSE GridCells(weeks, reddays, year, month, pos + 1, cells)

GridCells(weeks, reddays, year, month, pos, cells) ==
    IF pos >= 7 * Len(weeks) THEN Return(cells)
    ELSE GridDay(weeks[(pos \div 7) + 1][(pos % 7) + 1],
                 weeks, reddays, year, month, pos, cells)

\* drawGrid after reddays = loadDays(...), weeks = calendar.monthcalendar(...)
GridOf(reddays, weeks, year, month) ==
    IF reddays.err # "none" THEN Raise(reddays.err)
    ELSE IF weeks.err # "none" THEN Raise(weeks.err)
    ELSE GridCells(weeks.val, reddays.val, year, month, 0, <<>>)

drawGrid(file, year, month) ==
    GridOf(loadDays(file, year), monthcalendar(year, month), year, month)

(***************************************************************************)
(* drawHeader, drawCoverPage, drawCalendarPage, drawMonth.  The canvas is  *)
(* the sequence of the pages shown (showPage) so far.                      *)
(***************************************************************************)
drawHeader(year, month) ==
    IF ~PyInRange(months, month - 1) THEN Raise("IndexError")
    ELSE Return(<<PyIndex(months, month - 1), year>>)

ImagePage(filename) ==
    [kind |-> "image", file |-> filename, year |-> 0, month |-> 0,
     title |-> <<>>, cells |-> <<>>]

CalendarPage(year, month, title, cells) ==
    [kind |-> "calendar", file |-> <<>>, year |-> year, month |-> month,
     title |-> title, cells |-> cells]

drawCoverPage(canvas, filename) == Append(canvas, ImagePage(filename))

\* drawCalendarPage after drawHeader and drawGrid: showPage() is reached
\* when neither raised
ShowCalendarPage(canvas, header, grid, year, month) ==
    IF header.err # "none" THEN [err |-> header.err, canvas |-> canvas]
    ELSE IF grid.err # "none" THEN [err |-> grid.err, canvas |-> canvas]
    ELSE [err |-> "none",
          canvas |-> Append(canvas, CalendarPage(year, month, header.val, grid.val))]

drawCalendarPage(canvas, file, year, month) ==
    ShowCalendarPage(canvas, drawHeader(year, month), drawGrid(file, year, month),
                     year, month)

\* CycleNext with an iterator that repeats the last image once exhausted
CycleNextNoWrap(images, n) ==
    IF images = <<>> THEN Raise("StopIteration")
    ELSE Return(images[IF n < Len(images) THEN n + 1 ELSE Len(images)])

\* next(image_files) of itertools.cycle(images) after n earlier calls
CycleNext(images, n) ==
    IF images = <<>> THEN Raise("StopIteration")
    ELSE Return(images[(n % Len(images)) + 1])

\* the try block of drawMonth, image_file being the result of next()
CoverOf(canvas, image_file) ==
    IF image_file.err = "none" THEN drawCoverPage(canvas, image_file.val) ELSE canvas

\* drawMonth: [err, canvas], the exception raised and the canvas after it.
\* taken is the number of earlier calls of next(image_files)
drawMonth(canvas, file, year, month, images, taken) ==
    drawCalendarPage(CoverOf(canvas, CycleNext(images, taken)), file, year, month)

(***************************************************************************)
(* The inputs: command lines, image directories and annotation files.      *)
(***************************************************************************)
DigitChar(d) == CHOOSE ch \in Digits : DigitVal(ch) = d

\* a month number as the two digits of the command line
TwoDigits(n) == <<DigitChar(n \div 10), DigitChar(n % 10)>>

MonthNumbers == 0..13

MonthArgs ==
    {TwoDigits(s) : s \in MonthNumbers}
    \cup {TwoDigits(s) \o <<"-">> \o TwoDigits(e) : s \in MonthNumbers, e \in MonthNumbers}

YearArgs == { <<"2", "0", "1", "8">> }

ImageLists == {[i \in 1..k |-> <<"img", i>>] : k \in 0..MaxImages}

NoFile == [exists |-> FALSE, lines |-> <<>>]
FileOf(lines) == [exists |-> TRUE, lines |-> lines]

\* annotation files of the runs and of the grid
FileHolidays ==
    FileOf(<< <<"#", " ", "h", "o", "l", "i", "d", "a", "y", "s">>,
              <<"2", "5", ".", "3", " ", "A", "b", " ", "/", " ", "1", ":", "C", "d">>,
              <<"2", "5", ".", "3", " ", "2", ":", "E", "f">>,
              <<" ", "1", ".", "5", "\t", "1", ":", "M", "a", "y", " ", " ", "D", "a", "y", " ">>,
              <<"4", ".", "7", " ", "3", ":", "U+00E9">> >>)

FileFeasts ==
    FileOf(<< <<"1", ".", "1", " ", "1", ":", "N", "Y">>,
              <<"E", "-", "2", " ", "1", ":", "G", "F">>,
              <<"E", "+", "1", " ", "1", ":", "E", "M", " ", "/", " ", "2", ":", "W", "a", "l", "k">>,
              <<"T", "s", "e", " ", "3", ":", "S", "p", "r", "i", "n", "g">>,
              <<"T", "w", "s", " ", "Y", "u", "l", "e">> >>)

FileBadIndex == FileOf(<< <<"1", "4", ".", "2", " ", "7", ":", "V", "a", "l">> >>)

FileNegative == FileOf(<< <<"1", "4", ".", "2", " ", "-", "1", ":", "N", "e", "g">>, <<"1", "5", ".", "2", " ", "-", "5", ":", "B", "a", "d", " ", "/", " ", "1", ":", "C", "d">> >>)

FileBadStyle == FileOf(<< <<"3", "1", ".", "1", "2", " ", "x", ":", "E", "v", "e">> >>)

FileNoSuchDay == FileOf(<< <<"3", "0", ".", "2", " ", "1", ":", "N", "e", "v", "e", "r">> >>)

FileUnknownCode == FileOf(<< <<"1", ".", "1", " ", "1", ":", "N", "Y">>, <<"X", "1", " ", "F", "o", "o">> >>)

RunFiles == {NoFile, FileFeasts, FileBadIndex}

GridFiles ==
    {NoFile, FileOf(<<>>), FileHolidays, FileFeasts, FileBadIndex, FileNegative,
     FileBadStyle, FileNoSuchDay, FileUnknownCode}

GridYears == {1900, 2000, 2016, 2017, 2018, 2019, 2100}

\* the lines of the files handed to loadDays alone: a date token, a space
\* and a payload of up to MaxParts parts
DateTokens ==
    { <<"2", "5", ".", "3">>, <<"3", ".", "x">>, <<"E">>, <<"E", "0">>, <<"E", "-", "2">>, <<"E", "+", "3", "0">>, <<"T", "s", "e">>, <<"T", "z", "z">>, <<"X", "1">> }

Parts ==
    { <<"A", "b">>, <<"1", ":", "C", "d", " ", "e">>, <<"7", ":", "E", "f">>, <<"x", ":", "G", "h">>, <<"2", ":", "I", ":", "j">>, <<"-", "1", ":", "U+00E9">>, <<"3", " ", ":", " ", "L", "m">> }

Separators == { <<"/">>, <<" ", "/", " ", " ">> }

RECURSIVE PayloadsOf(_)
PayloadsOf(n) ==
    IF n = 1 THEN Parts
    ELSE {p \o sep \o q : p \in PayloadsOf(n - 1), sep \in Separators, q \in Parts}

Payloads == {<<>>} \cup UNION {PayloadsOf(n) : n \in 1..MaxParts}

OtherLines == { <<>>, <<" ", " ">>, <<"#", "2", "5", ".", "3", " ", "A", "b">>, <<" ", "\t", "#", " ", "c", " ">>, <<"\t", "2", "5", ".", "3", " ", " ", " ", "1", ":", "C", "d", " ", " ", "/", "2", ":", "E", "f", " ", "\t">> }

Lines == {tok \o <<" ">> \o p : tok \in DateTokens, p \in Payloads} \cup OtherLines

CoreLines ==
    { <<"#", " ", "c">>, <<"2", "5", ".", "3", " ", "A", "b", " ", "/", " ", "1", ":", "C", "d", " ", "e">>, <<"E", "+", "3", "0", " ", "2", ":", "E", "f">>, <<"1", ".", "4", " ", "3", " ", ":", " ", "L", "m", "/", "A", "b">>, <<"T", "s", "e", " ", "x", ":", "G", "h">> }

ParseFiles ==
    {NoFile}
    \cup {FileOf(<<l>>) : l \in Lines}
    \cup UNION {{FileOf(ls) : ls \in [1..k -> CoreLines]} : k \in 0..MaxLines}

ParseYears == {2017, 2018, 2019}

(***************************************************************************)
(* State.  args, daysfile: the command line and the annotation file of a   *)
(* run.  pc: the position in run.  year, start, end, month, m: run's       *)
(* locals.  taken: the calls of next(image_files).  c: the canvas, the     *)
(* pages shown so far.  saved: the calls of c.save().  error: the          *)
(* exception that ended the run.  call, ret: the arguments and the result  *)
(* of a single call of loadDays or drawGrid.  handles: the handles that    *)
(* loadDays opened on the annotation file and that are still open.         *)
(* runtime: how the interpreter that runs the program reclaims objects.    *)
(***************************************************************************)
VARIABLES args, daysfile, pc, year, start, end, month, m, taken, c, saved,
          error, call, ret, handles, runtime

vars == <<args, daysfile, pc, year, start, end, month, m, taken, c, saved,
          error, call, ret, handles, runtime>>

\* loadDays never calls f.close(): the handle is closed when the interpreter
\* reclaims the file object.  With reference counts that is when the last
\* reference goes; with a tracing collector it is at some later collection
Runtimes == {"refcount", "tracing"}

\* the handles left open when loadDays ends with res.  After an exception the
\* traceback refers to the frame of loadDays and its local f, so the file
\* object cannot be reclaimed; after a return f was the last reference
LeftOpenBy(file, res) ==
    IF ~file.exists THEN 0
    ELSE IF runtime = "refcount" /\ res.err = "none" THEN 0
    ELSE 1

\* the handles left open by drawMonth: drawCalendarPage calls drawHeader
\* before drawGrid, and drawGrid calls loadDays first
LeftOpenByMonth(header, file, res) ==
    IF header.err # "none" THEN 0 ELSE LeftOpenBy(file, res)

NoCall == [fn |-> "none", file |-> NoFile, year |-> 0, month |-> 0]
NoArgs == [year |-> <<>>, month |-> <<>>, cover_image |-> FALSE, image_files |-> <<>>]
Pending == [err |-> "pending", val |-> <<>>]

Init ==
    /\ args \in [year : YearArgs, month : MonthArgs, cover_image : BOOLEAN,
                 image_files : ImageLists]
    /\ daysfile \in RunFiles
    /\ pc = "setup"
    /\ year = 0 /\ start = 0 /\ end = 0 /\ month = 0 /\ m = 0
    /\ taken = 0
    /\ c = <<>>
    /\ saved = 0
    /\ error = "none"
    /\ call = NoCall
    /\ ret = Pending
    /\ handles = 0
    /\ runtime \in Runtimes

\* an exception raised while run reads its arguments
SetupFailed(e) ==
    /\ pc' = "failed"
    /\ error' = e
    /\ UNCHANGED <<start, end, month>>

\* start = int(month.split('-')[0]); end = int(month.split('-')[1])
SetupRange(s, e) ==
    IF s.err # "none" THEN SetupFailed(s.err)
    ELSE IF e.err # "none" THEN SetupFailed(e.err)
    ELSE /\ start' = s.val
         /\ end' = e.val
         /\ pc' = IF e.val < s.val THEN "first" ELSE "range"
         /\ UNCHANGED <<month, error>>

\* month = int(month)
SetupSingle(mo) ==
    IF mo.err # "none" THEN SetupFailed(mo.err)
    ELSE /\ month' = mo.val
         /\ pc' = "single"
         /\ UNCHANGED <<start, end, error>>

\* y being int(args.year) and fields month.split('-')
SetupMonth(y, fields) ==
    IF y.err # "none" THEN SetupFailed(y.err) /\ UNCHANGED <<year, c>>
    ELSE /\ year' = y.val
         /\ c' = IF args.cover_image THEN drawCoverPage(c, <<"cover">>) ELSE c
         /\ IF Len(fields) > 1
            THEN SetupRange(PyInt(fields[1]), PyInt(fields[2]))
            ELSE SetupSingle(PyInt(fields[1]))

\* run up to the first loop: the canvas, the year, the cover page, the image
\* cycle and the month argument
Setup ==
    /\ pc = "setup"
    /\ SetupMonth(PyInt(args.year), SplitOn(args.month, "-"))
    /\ UNCHANGED <<handles, runtime, args, daysfile, m, taken, saved, call, ret>>

\* Drawn with the exception of drawMonth swallowed
DrawnIgnoringError(r) ==
    /\ c' = r.canvas
    /\ taken' = taken + 1
    /\ error' = error
    /\ pc' = pc
    /\ m' = m + 1

\* after a call of drawMonth in a loop: an exception ends run
Drawn(r) ==
    /\ c' = r.canvas
    /\ taken' = taken + 1
    /\ error' = r.err
    /\ pc' = IF r.err = "none" THEN pc ELSE "failed"
    /\ m' = IF r.err = "none" THEN m + 1 ELSE m

\* a call of drawMonth in run, with the handle that its loadDays leaves open
Draw(y, mo) ==
    /\ Drawn(drawMonth(c, daysfile, y, mo, args.image_files, taken))
    /\ handles' = handles + LeftOpenByMonth(drawHeader(y, mo), daysfile,
                                            loadDays(daysfile, y))

\* for m in range(12-start+1): drawMonth(c, year, start+m, image_files)
FirstLoop ==
    /\ pc = "first"
    /\ m < 12 - start + 1
    /\ Draw(year, start + m)
    /\ UNCHANGED <<runtime, args, daysfile, year, start, end, month, saved, call, ret>>

FirstLoopEnd ==
    /\ pc = "first"
    /\ m >= 12 - start + 1
    /\ pc' = "second"
    /\ m' = 0
    /\ UNCHANGED <<handles, runtime, args, daysfile, year, start, end, month, taken, c, saved,
                   error, call, ret>>

\* SecondLoop with the wrapped months drawn for the starting year
SecondLoopSameYear ==
    /\ pc = "second"
    /\ m < end
    /\ Draw(year, 1 + m)
    /\ UNCHANGED <<runtime, args, daysfile, year, start, end, month, saved, call, ret>>

\* for m in range(end): drawMonth(c, year+1, 1+m, image_files)
SecondLoop ==
    /\ pc = "second"
    /\ m < end
    /\ Draw(year + 1, 1 + m)
    /\ UNCHANGED <<runtime, args, daysfile, year, start, end, month, saved, call, ret>>

SecondLoopEnd ==
    /\ pc = "second"
    /\ m >= end
    /\ pc' = "save"
    /\ UNCHANGED <<handles, runtime, args, daysfile, year, start, end, month, m, taken, c, saved,
                   error, call, ret>>

\* for m in range(end-start+1): drawMonth(c, year, start+m, image_files)
RangeLoop ==
    /\ pc = "range"
    /\ m < end - start + 1
    /\ Draw(year, start + m)
    /\ UNCHANGED <<runtime, args, daysfile, year, start, end, month, saved, call, ret>>

RangeLoopEnd ==
    /\ pc = "range"
    /\ m >= end - start + 1
    /\ pc' = "save"
    /\ UNCHANGED <<handles, runtime, args, daysfile, year, start, end, month, m, taken, c, saved,
                   error, call, ret>>

\* after the call of drawMonth for a single month
DrawnSingle(r) ==
    /\ c' = r.canvas
    /\ taken' = taken + 1
    /\ error' = r.err
    /\ pc' = IF r.err = "none" THEN "save" ELSE "failed"

\* drawMonth(c, year, month, image_files) of a single month
Single ==
    /\ pc = "single"
    /\ DrawnSingle(drawMonth(c, daysfile, year, month, args.image_files, taken))
    /\ handles' = handles + LeftOpenByMonth(drawHeader(year, month), daysfile,
                                            loadDays(daysfile, year))
    /\ UNCHANGED <<runtime, args, daysfile, year, start, end, month, m, saved, call, ret>>

\* c.save()
Save ==
    /\ pc = "save"
    /\ saved' = saved + 1
    /\ pc' = "done"
    /\ UNCHANGED <<handles, runtime, args, daysfile, year, start, end, month, m, taken, c, error,
                   call, ret>>

Next ==
    \/ Setup
    \/ FirstLoop
    \/ FirstLoopEnd
    \/ SecondLoop
    \/ SecondLoopEnd
    \/ RangeLoop
    \/ RangeLoopEnd
    \/ Single
    \/ Save

Spec == Init /\ [][Next]_vars

(***************************************************************************)
(* A single call of loadDays, and a single call of drawGrid, on inputs     *)
(* drawn from the bounded sets.                                            *)
(***************************************************************************)
Idle ==
    /\ args = NoArgs
    /\ daysfile = NoFile
    /\ pc = "idle"
    /\ year = 0 /\ start = 0 /\ end = 0 /\ month = 0 /\ m = 0
    /\ taken = 0
    /\ c = <<>>
    /\ saved = 0
    /\ error = "none"
    /\ handles = 0
    /\ runtime \in Runtimes

InitLoadDays ==
    /\ Idle
    /\ call \in [fn : {"loadDays"}, file : ParseFiles, year : ParseYears, month : {0}]
    /\ ret = Pending

CallLoadDays ==
    /\ call.fn = "loadDays"
    /\ ret.err = "pending"
    /\ ret' = loadDays(call.file, call.year)
    /\ handles' = handles + LeftOpenBy(call.file, ret')
    /\ UNCHANGED <<runtime, args, daysfile, pc, year, start, end, month, m, taken, c,
                   saved, error, call>>

SpecLoadDays == InitLoadDays /\ [][CallLoadDays]_vars

InitDrawGrid ==
    /\ Idle
    /\ call \in [fn : {"drawGrid"}, file : GridFiles, year : GridYears,
                 month : MonthNumbers]
    /\ ret = Pending

CallDrawGrid ==
    /\ call.fn = "drawGrid"
    /\ ret.err = "pending"
    /\ ret' = drawGrid(call.file, call.year, call.month)
    /\ handles' = handles + LeftOpenBy(call.file, loadDays(call.file, call.year))
    /\ UNCHANGED <<runtime, args, daysfile, pc, year, start, end, month, m, taken, c,
                   saved, error, call>>

SpecDrawGrid == InitDrawGrid /\ [][CallDrawGrid]_vars

(***************************************************************************)
(* What a command line asks for, read off the argument text itself.        *)
(***************************************************************************)
TwoDigitValue(s, i) == 10 * DigitVal(s[i]) + DigitVal(s[i + 1])

ArgYear ==
    1000 * DigitVal(args.year[1]) + 100 * DigitVal(args.year[2])
    + 10 * DigitVal(args.year[3]) + DigitVal(args.year[4])

ArgIsRange == Len(args.month) = 5
ArgStart == TwoDigitValue(args.month, 1)
ArgEnd == IF ArgIsRange THEN TwoDigitValue(args.month, 4) ELSE ArgStart

\* the (year, month) pairs of the range s..e starting in year y
PairsOfRange(y, s, e) ==
    IF e >= s
    THEN [i \in 1..(e - s + 1) |-> <<y, s + i - 1>>]
    ELSE [i \in 1..((13 - s) + e) |->
             IF i <= 13 - s THEN <<y, s + i - 1>> ELSE <<y + 1, i - (13 - s)>>]

RequestedPairs == PairsOfRange(ArgYear, ArgStart, ArgEnd)

IsCalendarPage(p) == p.kind = "calendar"
CalendarPages(canvas) == SelectSeq(canvas, IsCalendarPage)

\* the (year, month) of the calendar pages of a canvas, in page order
CalendarPairs(canvas) ==
    [i \in 1..Len(CalendarPages(canvas)) |->
        <<CalendarPages(canvas)[i].year, CalendarPages(canvas)[i].month>>]

IsPrefix(s, t) == Len(s) <= Len(t) /\ \A i \in 1..Len(s) : s[i] = t[i]

\* the pages after the cover page
MonthPages == IF args.cover_image /\ c # <<>> THEN Tail(c) ELSE c

(***************************************************************************)
(* C1.  Month-range expansion: for a month argument MM-NN with start and   *)
(* end in 1..12 the calendar pages are drawn for (year, start) ..          *)
(* (year, end) in order when end >= start, and for (year, start) ..        *)
(* (year, 12), (year+1, 1) .. (year+1, end) when end < start; a single     *)
(* month MM draws the one page (year, MM).  While run draws, the pages so  *)
(* far are the first of these pairs; when run reaches c.save() they are    *)
(* all of them.                                                            *)
(***************************************************************************)
C1_RangeExpansion ==
    (pc # "idle" /\ ArgStart \in 1..12 /\ ArgEnd \in 1..12) =>
        /\ IsPrefix(CalendarPairs(c), RequestedPairs)
        /\ pc \in {"save", "done"} => CalendarPairs(c) = RequestedPairs
        /\ ~ArgIsRange => Len(RequestedPairs) = 1

C1_Witness ==
    /\ pc = "done"
    /\ args.month = <<"1", "1", "-", "0", "2">>
    /\ CalendarPairs(c) = << <<2018, 11>>, <<2018, 12>>, <<2019, 1>>, <<2019, 2>> >>

(***************************************************************************)
(* C2.  Image interleaving: with a non-empty image list every calendar     *)
(* page comes right after one image page, and the image before the k-th    *)
(* month (k from 0) is the image at index k modulo the length of the list; *)
(* an image page without its calendar page exists only when drawing that   *)
(* month failed.  With an empty list there is no image page after the      *)
(* cover, no StopIteration reaches run, and the calendar pages of the      *)
(* requested months are all drawn when run reaches c.save().               *)
(***************************************************************************)
C2_ImageInterleaving ==
    pc # "idle" =>
        IF args.image_files = <<>>
        THEN /\ \A i \in 1..Len(MonthPages) : MonthPages[i].kind = "calendar"
             /\ error # "StopIteration"
             /\ pc \in {"save", "done"} => Len(MonthPages) = Len(RequestedPairs)
        ELSE /\ \A i \in 1..Len(MonthPages) :
                    IF i % 2 = 1
                    THEN /\ MonthPages[i].kind = "image"
                         /\ MonthPages[i].file =
                                args.image_files[(((i - 1) \div 2) % Len(args.image_files)) + 1]
                    ELSE MonthPages[i].kind = "calendar"
             /\ Len(MonthPages) % 2 = 1 => pc = "failed"
             /\ pc \in {"save", "done"} => Len(MonthPages) = 2 * Len(RequestedPairs)

C2_Witness ==
    /\ pc = "done"
    /\ Len(args.image_files) = 2
    /\ Len(MonthPages) = 6
    /\ MonthPages[5].file = args.image_files[1]
    /\ MonthPages[3].file = args.image_files[2]

(***************************************************************************)
(* C8.  Missing annotation file: loadDays returns the empty list without   *)
(* raising, and every requested month page is rendered, with no annotation *)
(* text and with no red day number outside the 7th column.                 *)
(***************************************************************************)
ValidRequest ==
    /\ ArgStart \in 1..12
    /\ ArgEnd \in 1..12

C8_MissingFile ==
    (pc # "idle" /\ ~daysfile.exists) =>
        /\ loadDays(daysfile, ArgYear) = Return(<<>>)
        /\ ValidRequest => pc # "failed"
        /\ (ValidRequest /\ pc \in {"save", "done"}) => CalendarPairs(c) = RequestedPairs
        /\ \A i \in 1..Len(CalendarPages(c)) :
              \A j \in 1..Len(CalendarPages(c)[i].cells) :
                  LET cell == CalendarPages(c)[i].cells[j]
                  IN  /\ cell.items = <<>>
                      /\ cell.numcolor = "red" <=> cell.x = 6

C8_Witness ==
    /\ ~daysfile.exists
    /\ pc = "done"
    /\ Len(CalendarPages(c)) = 3
    /\ \E j \in 1..Len(CalendarPages(c)[1].cells) :
           CalendarPages(c)[1].cells[j].numcolor = "red"

(***************************************************************************)
(* C10.  No finalized output on failure: an exception raised while a month *)
(* is parsed or laid out ends run without c.save(); c.save() is called at  *)
(* most once, and only when the calendar page of every requested month has *)
(* been drawn and no exception was raised.                                 *)
(***************************************************************************)
C10_NoSaveOnFailure ==
    pc # "idle" =>
        /\ saved \in {0, 1}
        /\ saved = 1 <=> pc = "done"
        /\ error # "none" <=> pc = "failed"
        /\ pc = "failed" => saved = 0
        /\ saved = 1 => CalendarPairs(c) = RequestedPairs

C10_Witness ==
    /\ pc = "failed"
    /\ error = "IndexError"
    /\ saved = 0
    /\ Len(CalendarPages(c)) = 1
    /\ daysfile = FileBadIndex

(***************************************************************************)
(* C3.  Highlighting: in every grid drawn, the day number of a cell is red *)
(* if and only if the cell is in the 7th column or an entry that loadDays  *)
(* returned for the cell's (month, day) has style 1; otherwise it is       *)
(* black.                                                                  *)
(***************************************************************************)
HolidayEntry(reddays, mo, d) ==
    \E k \in 1..Len(reddays) : reddays[k].date = <<mo, d>> /\ reddays[k].style = 1

C3_Highlighting ==
    (call.fn = "drawGrid" /\ ret.err = "none") =>
        \A j \in 1..Len(ret.val) :
            /\ ret.val[j].numcolor \in {"red", "black"}
            /\ ret.val[j].numcolor = "red" <=>
                   \/ ret.val[j].x = 6
                   \/ HolidayEntry(loadDays(call.file, call.year).val,
                                   call.month, ret.val[j].day)

\* a holiday outside the 7th column, a 7th-column cell without entries and
\* a cell with entries that is not red, in one grid
C3_Witness ==
    /\ call.fn = "drawGrid"
    /\ ret.err = "none"
    /\ \E j \in 1..Len(ret.val) :
           ret.val[j].numcolor = "red" /\ ret.val[j].x # 6 /\ ret.val[j].items # <<>>
    /\ \E j \in 1..Len(ret.val) :
           ret.val[j].numcolor = "red" /\ ret.val[j].x = 6 /\ ret.val[j].items = <<>>
    /\ \E j \in 1..Len(ret.val) :
           ret.val[j].numcolor = "black" /\ ret.val[j].items # <<>>

(***************************************************************************)
(* C4.  Grid layout: for every year and every month 1..12 the cells drawn  *)
(* are as many as the month has days; they hold the days 1..last in this   *)
(* order at consecutive grid positions, day 1 in the first week and the    *)
(* last day in the last week of the grid.                                  *)
(***************************************************************************)
LeapYear(y) == (y % 4 = 0 /\ y % 100 # 0) \/ y % 400 = 0

MonthLength(y, mo) ==
    IF mo = 2 /\ LeapYear(y) THEN 29
    ELSE <<31, 28, 31, 30, 31, 30, 31, 31, 30, 31, 30, 31>>[mo]

C4_GridLayout ==
    (call.fn = "drawGrid" /\ ret.err = "none") =>
        /\ call.month \in 1..12
        /\ Len(ret.val) = MonthLength(call.year, call.month)
        /\ \A j \in 1..Len(ret.val) :
               /\ ret.val[j].day = j
               /\ ret.val[j].pos = ret.val[1].pos + (j - 1)
               /\ ret.val[j].x = ret.val[j].pos % 7
               /\ ret.val[j].y = ret.val[j].pos \div 7
        /\ ret.val[1].pos \in 0..6
        /\ ret.val[Len(ret.val)].pos \div 7
               = Len(monthcalendar(call.year, call.month).val) - 1

\* a month that takes six weeks, with empty cells before day 1 and after
\* day 30
C4_Witness ==
    /\ call.fn = "drawGrid"
    /\ ret.err = "none"
    /\ call.year = 2018 /\ call.month = 4
    /\ Len(ret.val) = 30
    /\ ret.val[1].pos = 6 /\ ret.val[30].pos = 35
    /\ Len(monthcalendar(call.year, call.month).val) = 6

(***************************************************************************)
(* What an annotation file says, read off its lines: the data lines (not   *)
(* comments), their payload parts, and the style prefix and text of a      *)
(* part.                                                                   *)
(***************************************************************************)
IsDataLine(line) ==
    Strip(line, StripChars) # <<>> /\ Strip(line, StripChars)[1] # "#"

DataLines(lines) == SelectSeq(lines, IsDataLine)

TokenOf(line) == SplitWs(line)[1]
PayloadOf(line) == Join(Tail(SplitWs(line)), <<" ">>)

\* the number of parts: one more than the '/' characters of the payload
NumParts(line) ==
    1 + Cardinality({i \in 1..Len(PayloadOf(line)) : PayloadOf(line)[i] = "/"})

\* the j-th part, between the (j-1)-th and the j-th '/', trimmed
SlashesBefore(s, i) == Cardinality({k \in 1..(i - 1) : s[k] = "/"})

RawPart(s, j) ==
    LET idx == {i \in 1..Len(s) : s[i] # "/" /\ SlashesBefore(s, i) = j - 1}
    IN  [n \in 1..Cardinality(idx) |->
            s[CHOOSE i \in idx : Cardinality({k \in idx : k < i}) = n - 1]]

PartOf(line, j) == Strip(RawPart(PayloadOf(line), j), Whitespace)

HasColon(part) == \E i \in 1..Len(part) : part[i] = ":"
FirstColon(part) ==
    CHOOSE i \in 1..Len(part) : part[i] = ":" /\ \A k \in 1..(i - 1) : part[k] # ":"

StylePrefix(part) == SubSeq(part, 1, FirstColon(part) - 1)
TextOf(part) ==
    IF HasColon(part) THEN SubSeq(part, FirstColon(part) + 1, Len(part)) ELSE part

\* entries before the first entry of the i-th data line
RECURSIVE EntriesBefore(_, _)
EntriesBefore(dl, i) ==
    IF i <= 1 THEN 0 ELSE EntriesBefore(dl, i - 1) + NumParts(dl[i - 1])

\* the <<month, day>> that a data line's token resolves to
LineDate(line, yr) ==
    LET d == DateOfToken(TokenOf(line), yr).val
    IN  <<IntOfField(d, 2).val, IntOfField(d, 1).val>>

\* the text of a Paragraph without the markup of its style
BareText(txt) ==
    IF Len(txt) >= 7 /\ SubSeq(txt, 1, 3) = <<"<", "i", ">">>
    THEN SubSeq(txt, 4, Len(txt) - 4)
    ELSE txt

DatesResolve(lines, yr) ==
    \A i \in 1..Len(lines) :
        /\ Strip(lines[i], StripChars) # <<>>
        /\ IsDataLine(lines[i]) =>
               LET d == DateOfToken(TokenOf(lines[i]), yr)
               IN  /\ d.err = "none"
                   /\ IntOfField(d.val, 1).err = "none"
                   /\ IntOfField(d.val, 2).err = "none"

IntegerPrefixes(lines) ==
    \A i \in 1..Len(lines) :
        IsDataLine(lines[i]) =>
            \A j \in 1..NumParts(lines[i]) :
                HasColon(PartOf(lines[i], j)) =>
                    PyInt(StylePrefix(PartOf(lines[i], j))).err = "none"

SingleColons(lines) ==
    \A i \in 1..Len(lines) :
        IsDataLine(lines[i]) =>
            \A j \in 1..NumParts(lines[i]) :
                Cardinality({k \in 1..Len(PartOf(lines[i], j)) :
                                PartOf(lines[i], j)[k] = ":"}) <= 1

\* the lines that the parser takes: resolvable dates, integer style prefixes
\* and at most one ':' in a part
WellFormed(lines, yr) ==
    DatesResolve(lines, yr) /\ IntegerPrefixes(lines) /\ SingleColons(lines)

(***************************************************************************)
(* C5.  Parser output order: loadDays returns for every file of            *)
(* well-formed lines, and when it returns, its list holds, for             *)
(* each data line in file order, one entry per '/'-separated part in part  *)
(* order; every entry of a line has the line's date and the text of the    *)
(* trimmed part.  In a grid cell the entries of the cell's date are        *)
(* stacked in the order of the list.                                       *)
(***************************************************************************)
SameDateAs(entries, e) ==
    LET same(r) == r.date = e.date IN SelectSeq(entries, same)

StackedInOrder(entries, yr) ==
    \A k \in 1..Len(entries) :
        LET cell == DayCell(entries, yr, entries[k].date[1], entries[k].date[2], 0)
            same == SameDateAs(entries, entries[k])
        IN  cell.err = "none" =>
                /\ Len(cell.val.items) = Len(same)
                /\ \A q \in 1..Len(same) : BareText(cell.val.items[q].txt) = same[q].text

ReturnedInOrder ==
        LET dl == DataLines(call.file.lines)
        IN  /\ Len(ret.val) = EntriesBefore(dl, Len(dl) + 1)
            /\ \A i \in 1..Len(dl) : \A j \in 1..NumParts(dl[i]) :
                   LET e == ret.val[EntriesBefore(dl, i) + j]
                   IN  /\ e.date = LineDate(dl[i], call.year)
                       /\ e.text = Utf8Encode(TextOf(PartOf(dl[i], j)))
                       /\ ~HasColon(PartOf(dl[i], j)) =>
                              e.text = Utf8Encode(Strip(RawPart(PayloadOf(dl[i]), j),
                                                        Whitespace))
            /\ StackedInOrder(ret.val, call.year)

C5_ParserOrder ==
    (call.fn = "loadDays" /\ ret.err # "pending" /\ call.file.exists) =>
        /\ WellFormed(call.file.lines, call.year) => ret.err = "none"
        /\ ret.err = "none" => ReturnedInOrder

\* two lines of two parts each around a comment
C5_Witness ==
    /\ call.fn = "loadDays"
    /\ ret.err = "none"
    /\ Len(call.file.lines) = 3
    /\ call.file.lines[2] = <<"#", " ", "c">>
    /\ Len(ret.val) = 4
    /\ ret.val[1].date = ret.val[2].date
    /\ ret.val[3].date = ret.val[4].date
    /\ ret.val[2].date # ret.val[3].date
    /\ ret.val[1].text # ret.val[2].text

(***************************************************************************)
(* C6.  Style extraction: for every part with at least one ':' the style   *)
(* is the integer before the first ':' and the text is all that follows    *)
(* the first ':', further ':' included; a part without ':' has style 0 and *)
(* the whole part as text.  Stated for the files whose dates resolve and   *)
(* whose style prefixes are integers.                                      *)
(***************************************************************************)
C6_StyleExtraction ==
    (/\ call.fn = "loadDays" /\ ret.err # "pending" /\ call.file.exists
     /\ DatesResolve(call.file.lines, call.year)
     /\ IntegerPrefixes(call.file.lines)) =>
        LET dl == DataLines(call.file.lines)
        IN  /\ ret.err = "none"
            /\ \A i \in 1..Len(dl) : \A j \in 1..NumParts(dl[i]) :
                   LET e == ret.val[EntriesBefore(dl, i) + j]
                       part == PartOf(dl[i], j)
                   IN  /\ e.text = Utf8Encode(TextOf(part))
                       /\ e.style = IF HasColon(part)
                                    THEN PyInt(StylePrefix(part)).val
                                    ELSE 0

(***************************************************************************)
(* C7.  Movable feast: the token E<suffix>, the suffix empty or an         *)
(* optionally signed integer n (empty meaning 0), resolves to Easter       *)
(* Sunday of the year plus n days, rolling over the ends of months.        *)
(* Easter Sunday is taken from the documented dates and the days are       *)
(* counted one by one.  Stated for the one-line files whose payload has no *)
(* style prefix.                                                           *)
(***************************************************************************)
DocumentedEaster(yr) ==
    CASE yr = 2017 -> <<4, 16>>
      [] yr = 2018 -> <<4, 1>>
      [] yr = 2019 -> <<4, 21>>
      [] yr = 2020 -> <<4, 12>>

NextDay(yr, md) ==
    IF md[2] < MonthLength(yr, md[1]) THEN <<md[1], md[2] + 1>>
    ELSE <<(md[1] % 12) + 1, 1>>

PrevDay(yr, md) ==
    IF md[2] > 1 THEN <<md[1], md[2] - 1>>
    ELSE <<((md[1] + 10) % 12) + 1, MonthLength(yr, ((md[1] + 10) % 12) + 1)>>

RECURSIVE ShiftDays(_, _, _)
ShiftDays(yr, md, n) ==
    IF n = 0 THEN md
    ELSE IF n > 0 THEN ShiftDays(yr, NextDay(yr, md), n - 1)
    ELSE ShiftDays(yr, PrevDay(yr, md), n + 1)

IsEasterToken(tok) ==
    /\ Head(tok) = "E"
    /\ \/ Tail(tok) = <<>>
       \/ /\ Tail(tok)[1] \in Digits \cup {"+", "-"}
          /\ Tail(tok)[Len(tok) - 1] \in Digits
          /\ \A i \in 2..(Len(tok) - 1) : Tail(tok)[i] \in Digits

OffsetOf(tok) == IF Tail(tok) = <<>> THEN 0 ELSE PyInt(Tail(tok)).val

C7_EasterResolver ==
    (/\ call.fn = "loadDays" /\ ret.err # "pending" /\ call.file.exists
     /\ Len(call.file.lines) = 1
     /\ IsDataLine(call.file.lines[1])
     /\ IsEasterToken(TokenOf(call.file.lines[1]))
     /\ ~HasColon(call.file.lines[1])) =>
        /\ ret.err = "none"
        /\ \A k \in 1..Len(ret.val) :
               ret.val[k].date = ShiftDays(call.year, DocumentedEaster(call.year),
                                           OffsetOf(TokenOf(call.file.lines[1])))

(***************************************************************************)
(* C9.  Invalid style code: whenever a part of a data line has a style     *)
(* prefix that is no integer, or an integer outside 0..3, the call of      *)
(* loadDays fails and returns no list.                                     *)
(***************************************************************************)
InvalidPrefix(part) ==
    /\ HasColon(part)
    /\ \/ PyInt(StylePrefix(part)).err # "none"
       \/ PyInt(StylePrefix(part)).val \notin 0..3

HasInvalidStyle(lines) ==
    \E i \in 1..Len(lines) :
        /\ IsDataLine(lines[i])
        /\ \E j \in 1..NumParts(lines[i]) : InvalidPrefix(PartOf(lines[i], j))

C9_InvalidStyleRejected ==
    (/\ call.fn = "loadDays" /\ ret.err # "pending" /\ call.file.exists
     /\ HasInvalidStyle(call.file.lines)) =>
        ret.err # "none"

(***************************************************************************)
(* C11.  Input file handle release: when a call of loadDays has ended, by  *)
(* a return or by an exception raised partway through a line, the handle   *)
(* it opened on the annotation file is closed; when a run has ended, no    *)
(* handle opened by the parse of any of its months is open.                *)
(***************************************************************************)
C11_HandleReleased ==
    (\/ call.fn = "loadDays" /\ ret.err # "pending"
     \/ pc \in {"done", "failed"}) =>
        handles = 0

=============================================================================
